---- MODULE Spec2Model ----
(***************************************************************************)
(* A model of src/src/app/components/MandelbrotViewer.tsx:                 *)
(*   - the fragment shader's escape-time loop and colouring (Driver A),    *)
(*   - renderMandelbrot and hslToRgb (Driver B),                           *)
(*   - the MandelbrotViewer component: the render effect with its          *)
(*     requestAnimationFrame loop and cleanup, and the two GSAP tweens     *)
(*     that update hueShift and scale.                                     *)
(*                                                                         *)
(* Numbers.  The pure functions compute on exact rationals <<n, d>> in     *)
(* lowest terms (d > 0).  The inputs are small integers, for which the     *)
(* IEEE-754 operations of the code are exact or off by a few ulp, far      *)
(* from every comparison made here; only Math.round of a value that is     *)
(* exactly a half in the rationals (127.5) can come out one lower in       *)
(* doubles.  The animated component state is kept in fixed point:          *)
(* hueShift in tenths of a degree, scale in thousandths.                   *)
(***************************************************************************)
EXTENDS Integers, Sequences, FiniteSets, TLC

VARIABLES
    pending,     \* the driver invocation about to run: its function and arguments
    frag,        \* the last fragment-shader invocation: its inputs, locals and gl_FragColor
    image,       \* the last renderMandelbrot call: its arguments, per-pixel locals and data
    hueShift,    \* useState(0), in tenths of a degree
    scale,       \* useState(100), in thousandths
    phase,       \* "constructed" (rendered, effects not yet run), "mounted", "unmounted", "crashed"
    stale,       \* a state update is queued: the render effect's deps changed since it last ran
    tweens,      \* "idle", "running" or "killed": the two GSAP tweens
    ticks,       \* tween updates so far
    glState,     \* "untried", "failed" or "acquired": what canvas.getContext last gave
    acquisitions,\* calls of canvas.getContext("webgl") so far
    errors,      \* console.error("WebGL not supported") calls so far
    insts,       \* the render effect's successful runs, in order: each one's closure
    current,     \* the run whose cleanup React holds (an index of insts), 0 when none
    rafQueue,    \* the pending requestAnimationFrame callbacks: [handle, inst]
    requests,    \* requestAnimationFrame calls so far (the last handle given out)
    deadDraws    \* frames drawn with a deleted program or buffer

drivers == <<pending, frag, image>>

component == <<hueShift, scale, phase, stale, tweens, ticks, glState, acquisitions,
               errors, insts, current, rafQueue, requests, deadDraws>>

vars == <<pending, frag, image, hueShift, scale, phase, stale, tweens, ticks, glState,
          acquisitions, errors, insts, current, rafQueue, requests, deadDraws>>

\* ------------------------------------------------------------------ bounds
MaxIter == 3
MaxRenderIter == 2
MaxDim == 2
MaxTicks == 3
MaxRequests == 4

\* ------------------------------------------------------- number arithmetic
Abs(a) == IF a < 0 THEN -a ELSE a

RECURSIVE GCD(_, _)
GCD(a, b) == IF b = 0 THEN a ELSE GCD(b, a % b)

LCM(a, b) == (a \div GCD(a, b)) * b

\* n/d in lowest terms with a positive denominator.
Rat(n, d) ==
    LET s == IF d < 0 THEN -1 ELSE 1
        g == GCD(Abs(n), Abs(d))
    IN  <<(s * n) \div g, (s * d) \div g>>

Num(i) == <<i, 1>>

RAdd(a, b) ==
    LET l == LCM(a[2], b[2])
    IN  Rat(a[1] * (l \div a[2]) + b[1] * (l \div b[2]), l)

RNeg(a) == <<-a[1], a[2]>>

RSub(a, b) == RAdd(a, RNeg(b))

RMul(a, b) ==
    LET g1 == GCD(Abs(a[1]), b[2])
        g2 == GCD(Abs(b[1]), a[2])
    IN  Rat((a[1] \div g1) * (b[1] \div g2), (a[2] \div g2) * (b[2] \div g1))

RDiv(a, b) == RMul(a, Rat(b[2], b[1]))

RLt(a, b) == RSub(a, b)[1] < 0

RLe(a, b) == RSub(a, b)[1] <= 0

RFloor(a) == a[1] \div a[2]

RTrunc(a) == IF a[1] >= 0 THEN a[1] \div a[2] ELSE -((-a[1]) \div a[2])

\* JavaScript's a % b: the remainder of the truncating division.
JsRem(a, b) == RSub(a, RMul(b, Num(RTrunc(RDiv(a, b)))))

\* GLSL's mod(a, b) = a - b * floor(a / b).
GlslMod(a, b) == RSub(a, RMul(b, Num(RFloor(RDiv(a, b)))))

\* Math.round: the nearest integer, halves towards +infinity.
MathRound(a) == RFloor(RAdd(a, Rat(1, 2)))

\* A store into a Uint8ClampedArray.
ClampByte(v) == IF v < 0 THEN 0 ELSE IF v > 255 THEN 255 ELSE v

\* ------------------------------------------------- Driver A: fragment shader
ShaderLoopCap == 20000

Threshold == 4

\* if(x*x + y*y > 4.0)
ShaderEscapedNonStrict(x, y) == RLe(Num(Threshold), RAdd(RMul(x, x), RMul(y, y)))

ShaderEscaped(x, y) == RLt(Num(Threshold), RAdd(RMul(x, x), RMul(y, y)))

\* The for loop of main, entered at index i with the iterate (x, y).  iter is
\* assigned only by the escape branch; escaped tells which exit was taken.
RECURSIVE ShaderLoop(_, _, _, _, _, _)
ShaderLoop(i, x, y, x0, y0, uMaxIter) ==
    IF i >= ShaderLoopCap \/ i >= uMaxIter
    THEN [iter |-> 0, escaped |-> FALSE]
    ELSE LET xTemp == RAdd(RSub(RMul(x, x), RMul(y, y)), x0)
             yNext == RAdd(RMul(RMul(Num(2), x), y), y0)
         IN  IF ShaderEscaped(xTemp, yNext)
             THEN [iter |-> i, escaped |-> TRUE]
             ELSE ShaderLoop(i + 1, xTemp, yNext, x0, y0, uMaxIter)

\* GLSL hue2rgb
glHue2rgb(p, q, t0) ==
    LET t1 == IF RLt(t0, Num(0)) THEN RAdd(t0, Num(1)) ELSE t0
        t  == IF RLt(Num(1), t1) THEN RSub(t1, Num(1)) ELSE t1
    IN  IF RLt(t, Rat(1, 6)) THEN RAdd(p, RMul(RMul(RSub(q, p), Num(6)), t))
        ELSE IF RLt(t, Rat(1, 2)) THEN q
        ELSE IF RLt(t, Rat(2, 3))
             THEN RAdd(p, RMul(RMul(RSub(q, p), RSub(Rat(2, 3), t)), Num(6)))
        ELSE p

\* GLSL hsl2rgb
hsl2rgb(h, s, l) ==
    LET q == IF RLt(l, Rat(1, 2)) THEN RMul(l, RAdd(Num(1), s))
             ELSE RSub(RAdd(l, s), RMul(l, s))
        p == RSub(RMul(Num(2), l), q)
    IN  <<glHue2rgb(p, q, RAdd(h, Rat(1, 3))),
          glHue2rgb(p, q, h),
          glHue2rgb(p, q, RSub(h, Rat(1, 3)))>>

Black == <<Num(0), Num(0), Num(0), Num(1)>>

\* main from "Initialize z = 0" on, for the sample (x0, y0).
FragMain(x0, y0, uMaxIter, uHueShift) ==
    LET loop == ShaderLoop(0, Num(0), Num(0), x0, y0, uMaxIter)
        iter == loop.iter
        base == [fn |-> "main", x0 |-> x0, y0 |-> y0, uMaxIter |-> uMaxIter,
                 uHueShift |-> uHueShift, iter |-> iter, escaped |-> loop.escaped]
    IN  IF iter = uMaxIter
        THEN [base EXCEPT !.fn = "main"] @@ [branch |-> "inside", gl_FragColor |-> Black]
        ELSE LET ratio  == Rat(iter, uMaxIter)
                 hueDeg == GlslMod(RAdd(RMul(ratio, Num(360)), Num(uHueShift)), Num(360))
                 hue    == RDiv(hueDeg, Num(360))
                 color  == hsl2rgb(hue, Num(1), Rat(1, 2))
             IN  base @@ [branch |-> "outside", hueDeg |-> hueDeg,
                          gl_FragColor |-> <<color[1], color[2], color[3], Num(1)>>]

\* const float baseWidth = 3.5
baseWidth == <<7, 2>>

\* Steps 1 to 4 of main: the sample of the fragment whose centre is gl_FragCoord.
FragSample(gl_FragCoord, uResolution, uCenter, uScale) ==
    LET aspect == RDiv(uResolution[2], uResolution[1])
        w    == RDiv(baseWidth, uScale)
        h    == RMul(w, aspect)
        xMin == RSub(uCenter[1], RDiv(w, Num(2)))
        xMax == RAdd(uCenter[1], RDiv(w, Num(2)))
        yMin == RSub(uCenter[2], RDiv(h, Num(2)))
        yMax == RAdd(uCenter[2], RDiv(h, Num(2)))
    IN  [x0 |-> RAdd(xMin, RMul(RDiv(gl_FragCoord[1], uResolution[1]), RSub(xMax, xMin))),
         y0 |-> RAdd(yMin, RMul(RDiv(gl_FragCoord[2], uResolution[2]), RSub(yMax, yMin)))]

\* The fragment shader's main.
main(gl_FragCoord, uResolution, uCenter, uScale, uMaxIter, uHueShift) ==
    LET c == FragSample(gl_FragCoord, uResolution, uCenter, uScale)
    IN  FragMain(c.x0, c.y0, uMaxIter, uHueShift)

\* ------------------------------------------------ Driver B: renderMandelbrot
\* hslToRgb's inner hue2rgb
hue2rgb(p, q, t0) ==
    LET t1 == IF RLt(t0, Num(0)) THEN RAdd(t0, Num(1)) ELSE t0
        t  == IF RLt(Num(1), t1) THEN RSub(t1, Num(1)) ELSE t1
    IN  IF RLt(t, Rat(1, 6)) THEN RAdd(p, RMul(RMul(RSub(q, p), Num(6)), t))
        ELSE IF RLt(t, Rat(1, 2)) THEN q
        ELSE IF RLt(t, Rat(2, 3))
             THEN RAdd(p, RMul(RMul(RSub(q, p), RSub(Rat(2, 3), t)), Num(6)))
        ELSE p

hslToRgb(h, s, l) ==
    LET q == IF RLt(l, Rat(1, 2)) THEN RMul(l, RAdd(Num(1), s))
             ELSE RSub(RAdd(l, s), RMul(l, s))
        p == RSub(RMul(Num(2), l), q)
    IN  [r |-> MathRound(RMul(hue2rgb(p, q, RAdd(h, Rat(1, 3))), Num(255))),
         g |-> MathRound(RMul(hue2rgb(p, q, h), Num(255))),
         b |-> MathRound(RMul(hue2rgb(p, q, RSub(h, Rat(1, 3))), Num(255)))]

\* xMin + (px / width) * (xMax - xMin), and the same for y.
MapCoordRightEdge(p, n, lo, hi) == RAdd(lo, RMul(Rat(p + 1, n), RSub(hi, lo)))

MapCoord(p, n, lo, hi) == RAdd(lo, RMul(Rat(p, n), RSub(hi, lo)))

\* The while loop of one pixel, entered with iter updates done and the iterate (x, y).
RECURSIVE CpuLoop(_, _, _, _, _, _)
CpuLoop(iter, x, y, x0, y0, maxIter) ==
    IF RLe(RAdd(RMul(x, x), RMul(y, y)), Num(Threshold)) /\ iter < maxIter
    THEN LET xTemp == RAdd(RSub(RMul(x, x), RMul(y, y)), x0)
             yNext == RAdd(RMul(RMul(Num(2), x), y), y0)
         IN  CpuLoop(iter + 1, xTemp, yNext, x0, y0, maxIter)
    ELSE [iter |-> iter, x |-> x, y |-> y]

\* const hue = ((ratio * 360) + hueShift) % 360, for ratio = iter / maxIter
CpuHue(iter, maxIter, hShift) ==
    JsRem(RAdd(RMul(Rat(iter, maxIter), Num(360)), Num(hShift)), Num(360))

\* hslToRgb(hue / 360, 1, 0.5)
CpuColor(iter, maxIter, hShift) ==
    hslToRgb(RDiv(CpuHue(iter, maxIter, hShift), Num(360)), Num(1), Rat(1, 2))

\* The body of the two for loops for the pixel (px, py): its locals.
PixelBody(px, py, width, height, xMin, xMax, yMin, yMax, maxIter, hShift) ==
    LET x0   == MapCoord(px, width, Num(xMin), Num(xMax))
        y0   == MapCoord(py, height, Num(yMin), Num(yMax))
        loop == CpuLoop(0, Num(0), Num(0), x0, y0, maxIter)
    IN  [x0 |-> x0, y0 |-> y0, iter |-> loop.iter,
         escaped |-> ~RLe(RAdd(RMul(loop.x, loop.x), RMul(loop.y, loop.y)), Num(Threshold)),
         idx |-> (py * width + px) * 4,
         hue |-> CpuHue(loop.iter, maxIter, hShift),
         c |-> CpuColor(loop.iter, maxIter, hShift)]

renderMandelbrot(width, height, xMin, xMax, yMin, yMax, maxIter, hShift) ==
    LET pixels == [p \in (0 .. width - 1) \X (0 .. height - 1) |->
                     PixelBody(p[1], p[2], width, height, xMin, xMax, yMin, yMax,
                               maxIter, hShift)]
        data == [i \in 0 .. (width * height * 4 - 1) |->
                   LET k  == i \div 4
                       px == pixels[<<k % width, k \div width>>]
                   IN  CASE i % 4 = 0 -> ClampByte(px.c.r)
                         [] i % 4 = 1 -> ClampByte(px.c.g)
                         [] i % 4 = 2 -> ClampByte(px.c.b)
                         [] OTHER     -> 255]
    IN  [fn |-> "renderMandelbrot", width |-> width, height |-> height,
         xMin |-> xMin, xMax |-> xMax, yMin |-> yMin, yMax |-> yMax,
         maxIter |-> maxIter, hueShift |-> hShift, pixels |-> pixels, data |-> data]

\* ------------------------------------------------------------ input domains
SampleCoords == -2 .. 2
HueShifts == {-450, -200, 0, 90, 400}
XWindows == {<<-2, 2>>, <<-2, 0>>, <<2, 3>>, <<0, 1>>}
YWindows == {<<-1, 1>>, <<0, 2>>, <<0, 1>>}

NoCall == [fn |-> "none"]

\* Viewports of one or two pixels a side, and the zooms at which their fragment
\* centres fall on halves.
Resolutions == {<<1, 1>>, <<2, 1>>, <<1, 2>>, <<2, 2>>}
Scales == {<<7, 8>>, <<7, 4>>}

FragInputs ==
    {[fn |-> "main", gl_FragCoord |-> <<Rat(2 * f[1] + 1, 2), Rat(2 * f[2] + 1, 2)>>,
      uResolution |-> <<Num(res[1]), Num(res[2])>>, uCenter |-> <<Num(c[1]), Num(c[2])>>,
      uScale |-> sc, uMaxIter |-> m, uHueShift |-> h] :
        res \in Resolutions, f \in (0 .. 1) \X (0 .. 1), c \in SampleCoords \X SampleCoords,
        sc \in Scales, m \in 1 .. MaxIter, h \in HueShifts}

RenderInputs ==
    {[fn |-> "renderMandelbrot", width |-> w, height |-> ht, xMin |-> xw[1], xMax |-> xw[2],
      yMin |-> yw[1], yMax |-> yw[2], maxIter |-> m, hueShift |-> h] :
        w \in 1 .. MaxDim, ht \in 1 .. MaxDim, xw \in XWindows, yw \in YWindows,
        m \in 1 .. MaxRenderIter, h \in HueShifts}

\* The component as constructed: no driver invoked, the useState initial values.
Init ==
    /\ pending = NoCall
    /\ frag = NoCall
    /\ image = NoCall
    /\ hueShift = 0
    /\ scale = 100000
    /\ phase = "constructed"
    /\ stale = FALSE
    /\ tweens = "idle"
    /\ ticks = 0
    /\ glState = "untried"
    /\ acquisitions = 0
    /\ errors = 0
    /\ insts = <<>>
    /\ current = 0
    /\ rafQueue = {}
    /\ requests = 0
    /\ deadDraws = 0

\* A driver about to be invoked on one input.
InitRender ==
    /\ pending \in {i \in FragInputs : /\ RLt(i.gl_FragCoord[1], i.uResolution[1])
                                       /\ RLt(i.gl_FragCoord[2], i.uResolution[2])}
                   \cup RenderInputs
    /\ frag = NoCall
    /\ image = NoCall
    /\ hueShift = 0
    /\ scale = 100000
    /\ phase = "constructed"
    /\ stale = FALSE
    /\ tweens = "idle"
    /\ ticks = 0
    /\ glState = "untried"
    /\ acquisitions = 0
    /\ errors = 0
    /\ insts = <<>>
    /\ current = 0
    /\ rafQueue = {}
    /\ requests = 0
    /\ deadDraws = 0

\* One fragment of one frame.
Fragment ==
    /\ pending.fn = "main"
    /\ frag' = main(pending.gl_FragCoord, pending.uResolution, pending.uCenter,
                     pending.uScale, pending.uMaxIter, pending.uHueShift)
    /\ pending' = NoCall
    /\ UNCHANGED <<image, component>>

\* One call of renderMandelbrot.
Render ==
    /\ pending.fn = "renderMandelbrot"
    /\ image' = renderMandelbrot(pending.width, pending.height, pending.xMin, pending.xMax,
                                 pending.yMin, pending.yMax, pending.maxIter,
                                 pending.hueShift)
    /\ pending' = NoCall
    /\ UNCHANGED <<frag, component>>

NextRender == Fragment \/ Render

SpecRender == InitRender /\ [][NextRender]_vars
\* ------------------------------------------- MandelbrotViewer: the component
MAX_SCALE == 1000000

\* zoomSpeed = 1.005 and colorSpeed = 0.1, as fractions
zoomSpeed == <<201, 200>>
colorSpeed == <<1, 10>>

\* a * r on the fixed-point value a, rounded down (written so that the
\* intermediate product stays small).
FixMul(a, r) == a * (r[1] \div r[2]) + (a * (r[1] % r[2])) \div r[2]

\* setScale's updater, on thousandths.
ScaleUpdateNoReset(prev) == FixMul(prev, zoomSpeed)

ScaleUpdate(prev) ==
    LET newScale == FixMul(prev, zoomSpeed)
    IN  IF newScale >= MAX_SCALE * 1000 THEN 1000 ELSE newScale

\* setHueShift's updater, on tenths of a degree: (prev + colorSpeed) % 360.
HueUpdate(prev) == (prev + (10 * colorSpeed[1]) \div colorSpeed[2]) % 3600

\* The browser's cancelAnimationFrame on the pending callbacks q.
cancelAnimationFrame(q, id) == {c \in q : c.handle # id}

\* The cleanup the render effect returned for its run i: what it leaves pending...
EffectCleanupRafMissing(i) == rafQueue

EffectCleanupRaf(i) == cancelAnimationFrame(rafQueue, insts[i].animationId)

\* ...and what it deletes (gl.deleteBuffer, gl.deleteProgram).
EffectCleanupInsts(i) == [insts EXCEPT ![i].deleted = TRUE]

\* React running the held cleanup, if there is one.
QueueAfterCleanup == IF current # 0 THEN EffectCleanupRaf(current) ELSE rafQueue

InstsAfterCleanup == IF current # 0 THEN EffectCleanupInsts(current) ELSE insts

\* What getContext("webgl") and createProgram can do on this run: a canvas that
\* has given a context keeps giving it.
Outcomes ==
    IF glState = "acquired" THEN {"ok", "shaderError"}
    ELSE {"ok", "shaderError", "noContext"}

\* The body of the render effect, run on the queue q and the runs is left by
\* the previous cleanup.  It ends at the guard (no context), in a throw
\* (createProgram), or after the first render() with a cleanup returned.
RenderEffect(q, is, outcome) ==
    /\ acquisitions' = acquisitions + 1
    /\ \/ /\ outcome = "noContext"
          /\ errors' = errors + 1
          /\ glState' = "failed"
          /\ phase' = "mounted"
          /\ insts' = is
          /\ current' = 0
          /\ rafQueue' = q
          /\ UNCHANGED requests
       \/ /\ outcome = "shaderError"
          /\ glState' = "acquired"
          /\ phase' = "crashed"
          /\ insts' = is
          /\ current' = 0
          /\ rafQueue' = q
          /\ UNCHANGED <<errors, requests>>
       \/ /\ outcome = "ok"
          /\ glState' = "acquired"
          /\ phase' = "mounted"
          /\ insts' = Append(is, [animationId |-> requests + 1, deleted |-> FALSE,
                                  frames |-> 1, uScale |-> scale, uHueShift |-> hueShift])
          /\ current' = Len(is) + 1
          /\ rafQueue' = q \cup {[handle |-> requests + 1, inst |-> Len(is) + 1]}
          /\ requests' = requests + 1
          /\ UNCHANGED errors

\* The effects of the first commit: the render effect, then the tweens start.
\* An effect that throws takes the tree down, and the tweens with it.
Mount ==
    /\ phase = "constructed"
    /\ \E outcome \in Outcomes :
          /\ RenderEffect(rafQueue, insts, outcome)
          /\ tweens' = IF outcome = "shaderError" THEN "killed" ELSE "running"
    /\ stale' = FALSE
    /\ UNCHANGED <<drivers, hueShift, scale, ticks, deadDraws>>

\* hueTween's onUpdate
HueTick ==
    /\ phase = "mounted" /\ tweens = "running"
    /\ hueShift' = HueUpdate(hueShift)
    /\ stale' = TRUE
    /\ UNCHANGED <<drivers, scale, phase, tweens, glState, acquisitions, errors, insts,
                   current, rafQueue, requests, deadDraws>>

\* scaleTween's onUpdate
ScaleTick ==
    /\ phase = "mounted" /\ tweens = "running"
    /\ scale' = ScaleUpdate(scale)
    /\ stale' = TRUE
    /\ UNCHANGED <<drivers, hueShift, phase, tweens, glState, acquisitions, errors, insts,
                   current, rafQueue, requests, deadDraws>>

\* React commits the queued updates: hueShift or scale changed, so the render
\* effect's cleanup runs and then its body, with the new values.
Commit ==
    /\ phase = "mounted" /\ stale
    /\ \E outcome \in Outcomes :
          /\ RenderEffect(QueueAfterCleanup, InstsAfterCleanup, outcome)
          /\ tweens' = IF outcome = "shaderError" THEN "killed" ELSE tweens
    /\ stale' = FALSE
    /\ UNCHANGED <<drivers, hueShift, scale, ticks, deadDraws>>

\* The browser runs a pending animation frame callback: render() of the run
\* that requested it draws one frame and requests the next.
Frame ==
    /\ requests < MaxRequests
    /\ \E c \in rafQueue :
          /\ insts' = [insts EXCEPT ![c.inst].frames = @ + 1,
                                    ![c.inst].animationId = requests + 1]
          /\ deadDraws' = deadDraws + (IF insts[c.inst].deleted THEN 1 ELSE 0)
          /\ rafQueue' = (rafQueue \ {c}) \cup {[handle |-> requests + 1, inst |-> c.inst]}
    /\ requests' = requests + 1
    /\ UNCHANGED <<drivers, hueShift, scale, phase, stale, tweens, ticks, glState,
                   acquisitions, errors, current>>

\* The component unmounts: every effect's cleanup runs.
Unmount ==
    /\ phase = "mounted"
    /\ phase' = "unmounted"
    /\ rafQueue' = QueueAfterCleanup
    /\ insts' = InstsAfterCleanup
    /\ current' = 0
    /\ tweens' = "killed"
    /\ UNCHANGED <<drivers, hueShift, scale, stale, ticks, glState, acquisitions, errors,
                   requests, deadDraws>>

Next ==
    \/ Mount
    \/ (ticks < MaxTicks /\ HueTick /\ ticks' = ticks + 1)
    \/ (ticks < MaxTicks /\ ScaleTick /\ ticks' = ticks + 1)
    \/ Commit
    \/ Frame
    \/ Unmount

Spec == Init /\ [][Next]_vars

\* The scale tween alone, run for as long as it runs.
NextZoom == Mount \/ (ScaleTick /\ UNCHANGED ticks)

SpecZoom == Init /\ [][NextZoom]_vars

\* ------------------------------------------------------------------ claims
FragDone == frag.fn = "main"

ImageDone == image.fn = "renderMandelbrot"

Pixels == IF ImageDone THEN DOMAIN image.pixels ELSE {}

\* The three colour bytes written for the pixel p.
Bytes(p) ==
    LET i == image.pixels[p].idx
    IN  <<image.data[i], image.data[i + 1], image.data[i + 2]>>

\* The bytes a float colour is presented as: round(c * 255), clamped.
ToBytes(color) ==
    <<ClampByte(MathRound(RMul(color[1], Num(255)))),
      ClampByte(MathRound(RMul(color[2], Num(255)))),
      ClampByte(MathRound(RMul(color[3], Num(255))))>>

\* C1: in the shader, a sample whose iterate never exceeds the threshold during
\* the uMaxIter updates is coloured black (0,0,0,1), whatever uHueShift is.
C1_InsideIsBlack ==
    (FragDone /\ frag.uMaxIter >= 1 /\ ~frag.escaped) => frag.gl_FragColor = Black

\* C2: renderMandelbrot writes the bytes (0,0,0) for every pixel whose sample
\* does not exceed the threshold within maxIter updates, for every hueShift.
C2_NonEscapedBytesBlack ==
    \A p \in Pixels : ~image.pixels[p].escaped => Bytes(p) = <<0, 0, 0>>

\* C3: for the same sample, cap and hue shift the shader's loop and
\* renderMandelbrot's loop give the same iteration count, the same
\* escaped/not-escaped classification and the same colour.
C3_SameAlgorithm ==
    FragDone =>
        LET l == CpuLoop(0, Num(0), Num(0), frag.x0, frag.y0, frag.uMaxIter)
            c == CpuColor(l.iter, frag.uMaxIter, frag.uHueShift)
        IN  /\ frag.iter = l.iter
            /\ frag.escaped = ShaderEscaped(l.x, l.y)
            /\ ToBytes(frag.gl_FragColor) = <<ClampByte(c.r), ClampByte(c.g), ClampByte(c.b)>>

AtTwoZero(r) == r.x0 = Num(2) /\ r.y0 = Num(0)

\* C4 as stated: for the sample (2,0) and any cap >= 1 each driver's loop
\* reports an escape with iteration count 0.
C4_Original ==
    /\ (FragDone /\ AtTwoZero(frag)) => (frag.escaped /\ frag.iter = 0)
    /\ \A p \in Pixels :
          AtTwoZero(image.pixels[p]) => (image.pixels[p].escaped /\ image.pixels[p].iter = 0)

\* C4 as amended: for the sample (2,0) the first update gives x*x+y*y = 4, which
\* is not above the threshold; the second update is.  With a cap >= 2 the shader
\* reports an escape with iter = 1 and renderMandelbrot's loop ends escaped with
\* iter = 2; with a cap of 1 neither driver sees an escape (iter is 0 in the
\* shader and 1 in renderMandelbrot).
C4_Amended ==
    /\ (FragDone /\ AtTwoZero(frag)) =>
          IF frag.uMaxIter >= 2 THEN frag.escaped /\ frag.iter = 1
          ELSE ~frag.escaped /\ frag.iter = 0
    /\ \A p \in Pixels :
          AtTwoZero(image.pixels[p]) =>
              IF image.maxIter >= 2
              THEN image.pixels[p].escaped /\ image.pixels[p].iter = 2
              ELSE ~image.pixels[p].escaped /\ image.pixels[p].iter = 1

\* C4 (witness): a fragment at (2,0) with a cap >= 2 has run and escaped.
C4_Witness == FragDone /\ AtTwoZero(frag) /\ frag.uMaxIter >= 2 /\ frag.escaped

InHueRange(h) == RLe(Num(0), h) /\ RLt(h, Num(360))

\* C8: in each driver the hue of an escaped sample, reduced modulo 360, lies
\* in [0,360) before it is divided by 360, for every hueShift.
C8_HueInRange ==
    /\ (FragDone /\ frag.escaped /\ frag.branch = "outside") => InHueRange(frag.hueDeg)
    /\ \A p \in Pixels : image.pixels[p].escaped => InHueRange(image.pixels[p].hue)

\* C9: the (r,g,b) renderMandelbrot obtains from hslToRgb with hueShift h is the
\* one it obtains with hueShift h + 360, for the same iteration count and cap.
C9_Wraparound ==
    \A p \in Pixels :
        image.pixels[p].c = CpuColor(image.pixels[p].iter, image.maxIter, image.hueShift + 360)

\* C10: every pixel's sample lies in [xMin,xMax) x [yMin,yMax); px = 0 maps
\* exactly to xMin and py = 0 exactly to yMin (so px = width-1 is below xMax).
C10_Mapping ==
    \A p \in Pixels :
        LET px == image.pixels[p]
        IN  /\ RLe(Num(image.xMin), px.x0) /\ RLt(px.x0, Num(image.xMax))
            /\ RLe(Num(image.yMin), px.y0) /\ RLt(px.y0, Num(image.yMax))
            /\ (p[1] = 0 => px.x0 = Num(image.xMin))
            /\ (p[2] = 0 => px.y0 = Num(image.yMin))

\* C10 (witness): an image at least two pixels a side, whose last pixel lies
\* strictly inside the window.
C10_Witness ==
    /\ ImageDone /\ image.width >= 2 /\ image.height >= 2
    /\ LET px == image.pixels[<<image.width - 1, image.height - 1>>]
       IN  RLt(Num(image.xMin), px.x0) /\ RLt(Num(image.yMin), px.y0)
Runs == 1 .. Len(insts)

\* C5: once the render effect's cleanup has run, no render() of that run
\* executes again: at most one animation frame callback is pending, none of
\* them belongs to a run that was cleaned up, and no frame was ever drawn with
\* a deleted program or buffer.
C5_StoppedLoopStaysStopped ==
    /\ Cardinality(rafQueue) <= 1
    /\ \A c \in rafQueue : ~insts[c.inst].deleted /\ c.inst = current
    /\ \A c \in rafQueue : c.handle = insts[c.inst].animationId
    /\ deadDraws = 0

\* C5 (witness): a run that drew frames was cleaned up, and a later run is
\* drawing frames with its callback pending.
C5_Witness ==
    /\ \E i \in Runs : insts[i].deleted /\ insts[i].frames >= 2
    /\ current # 0 /\ insts[current].frames >= 2
    /\ rafQueue # {}

\* C6: starting from 100, the scale tween keeps 1 <= scale < MAX_SCALE.
C6_ScaleInRange == 1000 <= scale /\ scale < MAX_SCALE * 1000

\* C6 (witness): the tween has wrapped: scale is back at 1.0, below its initial 100.
C6_Witness == scale = 1000 /\ tweens = "running"

\* C7: once getContext has given no context, the acquisition is not retried and
\* nothing is created, drawn or scheduled, whatever updates follow.
C7_NoRetryAfterFailure ==
    [][glState = "failed" =>
          /\ acquisitions' = acquisitions
          /\ errors' = errors
          /\ insts' = insts
          /\ rafQueue' = rafQueue
          /\ requests' = requests]_vars
====
